---- MODULE Spec2Model ----
(***************************************************************************)
(* A model of the music-enricher metadata pipeline:                        *)
(*   discogs_search.py    clean_text, is_similar, extract_artist_parts,    *)
(*                        search_discogs_release                           *)
(*   retry_utils.py       retry_with_backoff                               *)
(*   metadata_sources.py  MusicbrainzClient, AllMusicScraper,              *)
(*                        get_metadata_from_sources                        *)
(* Strings are sequences of one-character strings; None is the one-element *)
(* sequence <<"NONE">>, which no character sequence equals.                *)
(***************************************************************************)
EXTENDS Integers, Sequences, FiniteSets, TLC

(***************************************************************************)
(* Characters and Python's str primitives                                  *)
(***************************************************************************)
None == <<"NONE">>

UpperSeq == <<"A","B","C","D","E","F","G","H","I","J","K","L","M",
              "N","O","P","Q","R","S","T","U","V","W","X","Y","Z">>

LowerSeq == <<"a","b","c","d","e","f","g","h","i","j","k","l","m",
              "n","o","p","q","r","s","t","u","v","w","x","y","z">>

DigitChars == {"0","1","2","3","4","5","6","7","8","9"}

IsUpper(c) == \E i \in DOMAIN UpperSeq : UpperSeq[i] = c

IsLowerCh(c) == \E i \in DOMAIN LowerSeq : LowerSeq[i] = c

\* str.isspace for the characters of the model
IsSpace(c) == c \in {" ", "\t", "\n"}

\* "U+0130" stands for the capital I with dot above, a letter, and "U+0307"
\* for the combining dot above, a mark

\* the regex class \w: letters, digits and the underscore
IsWord(c) == IsUpper(c) \/ IsLowerCh(c) \/ c \in DigitChars \/ c = "_" \/ c = "U+0130"

LowerChar(c) ==
  IF IsUpper(c) THEN LowerSeq[CHOOSE i \in DOMAIN UpperSeq : UpperSeq[i] = c] ELSE c

\* str.lower of one character: U+0130 is the one character whose lower case
\* is two characters, i and U+0307
LowerOf(c) == IF c = "U+0130" THEN <<"i", "U+0307">> ELSE <<LowerChar(c)>>

\* str.lower
RECURSIVE Lower(_)
Lower(s) == IF s = <<>> THEN <<>> ELSE LowerOf(Head(s)) \o Lower(Tail(s))

\* python truthiness of an optional string: None and "" are falsy
Truthy(s) == s # None /\ s # <<>>

RECURSIVE SplitWSAcc(_, _, _)
SplitWSAcc(s, cur, acc) ==
  IF s = <<>> THEN (IF cur = <<>> THEN acc ELSE Append(acc, cur))
  ELSE IF IsSpace(Head(s))
       THEN SplitWSAcc(Tail(s), <<>>, IF cur = <<>> THEN acc ELSE Append(acc, cur))
       ELSE SplitWSAcc(Tail(s), Append(cur, Head(s)), acc)

\* str.split() with no argument: cut at whitespace runs, no empty piece
SplitWS(s) == SplitWSAcc(s, <<>>, <<>>)

RECURSIVE SplitAcc(_, _, _, _)
SplitAcc(s, sep, cur, acc) ==
  IF Len(s) < Len(sep) THEN Append(acc, cur \o s)
  ELSE IF SubSeq(s, 1, Len(sep)) = sep
       THEN SplitAcc(SubSeq(s, Len(sep) + 1, Len(s)), sep, <<>>, Append(acc, cur))
       ELSE SplitAcc(Tail(s), sep, Append(cur, Head(s)), acc)

\* str.split(sep): non-overlapping occurrences left to right, empty pieces kept
Split(s, sep) == SplitAcc(s, sep, <<>>, <<>>)

\* sep in s
Contains(s, sep) ==
  \E i \in 1..(Len(s) - Len(sep) + 1) : SubSeq(s, i, i + Len(sep) - 1) = sep

RECURSIVE LStrip(_)
LStrip(s) == IF s # <<>> /\ IsSpace(Head(s)) THEN LStrip(Tail(s)) ELSE s

RECURSIVE RStrip(_)
RStrip(s) ==
  IF s # <<>> /\ IsSpace(s[Len(s)]) THEN RStrip(SubSeq(s, 1, Len(s) - 1)) ELSE s

\* str.strip()
Strip(s) == RStrip(LStrip(s))

RECURSIVE Join(_, _)
Join(pieces, sep) ==
  IF pieces = <<>> THEN <<>>
  ELSE IF Len(pieces) = 1 THEN pieces[1]
  ELSE pieces[1] \o sep \o Join(Tail(pieces), sep)

\* str.replace(old, ''): every non-overlapping occurrence removed
Remove(s, old) == Join(Split(s, old), <<>>)

(***************************************************************************)
(* discogs_search.py: clean_text and is_similar                            *)
(***************************************************************************)
\* re.sub(r'[^\w\s]', '', text)
RECURSIVE KeepWordSpace(_)
KeepWordSpace(s) ==
  IF s = <<>> THEN <<>>
  ELSE (IF IsWord(Head(s)) \/ IsSpace(Head(s)) THEN <<Head(s)>> ELSE <<>>)
       \o KeepWordSpace(Tail(s))

clean_text(text) ==
  IF ~Truthy(text) THEN <<>>
  ELSE LET cleaned == KeepWordSpace(text)
       IN  Lower(Join(SplitWS(cleaned), <<" ">>))

RECURSIVE CommonPrefixLen(_, _, _, _, _, _)
CommonPrefixLen(a, b, i, j, ahi, bhi) ==
  IF i > ahi \/ j > bhi THEN 0
  ELSE IF a[i] # b[j] THEN 0
  ELSE 1 + CommonPrefixLen(a, b, i + 1, j + 1, ahi, bhi)

\* the scan of find_longest_match: starts in order of i, then j; a block
\* replaces the best one only when strictly longer
RECURSIVE LongestInRow(_, _, _, _, _, _, _)
LongestInRow(a, b, i, j, ahi, bhi, best) ==
  IF j > bhi THEN best
  ELSE LET k == CommonPrefixLen(a, b, i, j, ahi, bhi)
           nb == IF k > best.k THEN [i |-> i, j |-> j, k |-> k] ELSE best
       IN  IF nb.k < 0 THEN best ELSE LongestInRow(a, b, i, j + 1, ahi, bhi, nb)

RECURSIVE LongestFrom(_, _, _, _, _, _, _)
LongestFrom(a, b, i, ahi, blo, bhi, best) ==
  IF i > ahi THEN best
  ELSE LET nb == LongestInRow(a, b, i, blo, ahi, bhi, best)
       IN  IF nb.k < 0 THEN best ELSE LongestFrom(a, b, i + 1, ahi, blo, bhi, nb)

\* difflib.SequenceMatcher.find_longest_match on a[alo..ahi], b[blo..bhi]
\* (no junk): the longest block, earliest in a, then earliest in b
find_longest_match(a, b, alo, ahi, blo, bhi) ==
  LongestFrom(a, b, alo, ahi, blo, bhi, [i |-> alo, j |-> blo, k |-> 0])

\* the sum of the sizes of SequenceMatcher.get_matching_blocks
RECURSIVE MatchCount(_, _, _, _, _, _)
MatchCount(a, b, alo, ahi, blo, bhi) ==
  IF alo > ahi \/ blo > bhi THEN 0
  ELSE LET m == find_longest_match(a, b, alo, ahi, blo, bhi)
       IN  IF m.k = 0 THEN 0
           ELSE m.k + MatchCount(a, b, alo, m.i - 1, blo, m.j - 1)
                    + MatchCount(a, b, m.i + m.k, ahi, m.j + m.k, bhi)

\* SequenceMatcher(None, a, b).ratio() >= threshold, the threshold in
\* hundredths: ratio is 2*M/T, and 1.0 when both strings are empty
RatioAtLeast(a, b, threshold) ==
  LET M == MatchCount(a, b, 1, Len(a), 1, Len(b))
      T == Len(a) + Len(b)
  IN  IF T = 0 THEN 100 >= threshold ELSE 200 * M >= threshold * T

\* faulty variant: the test of lines 17-18 on empty or missing inputs is left out
is_similar_Unguarded(str1, str2, threshold) ==
  RatioAtLeast(clean_text(str1), clean_text(str2), threshold)

is_similar(str1, str2, threshold) ==
  IF ~Truthy(str1) \/ ~Truthy(str2) THEN FALSE
  ELSE RatioAtLeast(clean_text(str1), clean_text(str2), threshold)

(***************************************************************************)
(* discogs_search.py: extract_artist_parts                                 *)
(***************************************************************************)
\* [p.strip() for p in pieces if p.strip()]
RECURSIVE StripNonEmpty(_)
StripNonEmpty(pieces) ==
  IF pieces = <<>> THEN <<>>
  ELSE (IF Strip(Head(pieces)) # <<>> THEN <<Strip(Head(pieces))>> ELSE <<>>)
       \o StripNonEmpty(Tail(pieces))

separators == << <<",">>, <<"&">>, <<"f","e","a","t",".">>, <<"f","t",".">>,
                 <<"f","e","a","t","u","r","i","n","g">> >>

common_words == { <<"t","h","e">>, <<"a">>, <<"a","n">>, <<"a","n","d">>,
                  <<"o","r">>, <<"b","u","t">>, <<"n","o","r">>,
                  <<"f","o","r">>, <<"y","e","t">> }

\* the loop over separators: the test is on name.lower(), the split on name
RECURSIVE SeparatorParts(_, _)
SeparatorParts(name, seps) ==
  IF seps = <<>> THEN <<>>
  ELSE (IF Contains(Lower(name), Head(seps))
        THEN StripNonEmpty(Split(name, Head(seps))) ELSE <<>>)
       \o SeparatorParts(name, Tail(seps))

\* the least index >= from whose character is in chars, 0 when there is none
FirstIndexOf(s, chars, from) ==
  IF \E i \in from..Len(s) : s[i] \in chars
  THEN CHOOSE i \in from..Len(s) :
         s[i] \in chars /\ \A k \in from..(i - 1) : s[k] \notin chars
  ELSE 0

\* re.findall(r'\((.*?)\)', name): leftmost, shortest, non-overlapping; '.'
\* matches no newline
RECURSIVE ParenMatches(_, _)
ParenMatches(s, from) ==
  LET i == FirstIndexOf(s, {"("}, from)
  IN  IF i = 0 THEN <<>>
      ELSE LET j == FirstIndexOf(s, {")", "\n"}, i + 1)
           IN  IF j = 0 THEN <<>>
               ELSE IF s[j] = "\n" THEN ParenMatches(s, i + 1)
               ELSE <<SubSeq(s, i + 1, j - 1)>> \o ParenMatches(s, j + 1)

\* the loop over the parenthetical matches
RECURSIVE ParenParts(_, _)
ParenParts(name, matches) ==
  IF matches = <<>> THEN <<>>
  ELSE LET match == Head(matches)
           main_part == Strip(Remove(name, <<"(">> \o match \o <<")">>))
       IN  (IF main_part # <<>> THEN <<main_part>> ELSE <<>>)
           \o (IF match # <<>> THEN StripNonEmpty(Split(match, <<",">>)) ELSE <<>>)
           \o ParenParts(name, Tail(matches))

FirstWordPart(name) ==
  LET words == SplitWS(name)
  IN  IF Len(words) > 1 /\ Lower(words[1]) \notin common_words
      THEN <<words[1]>> ELSE <<>>

\* faulty variant: the filter of line 63 is left out
Dedupe_KeepsAll(parts, seen) == parts

\* [x for x in parts if x and not (x in seen or seen.add(x))]
RECURSIVE Dedupe(_, _)
Dedupe(parts, seen) ==
  IF parts = <<>> THEN <<>>
  ELSE IF Head(parts) = <<>> \/ Head(parts) \in seen
       THEN Dedupe(Tail(parts), seen)
       ELSE <<Head(parts)>> \o Dedupe(Tail(parts), seen \cup {Head(parts)})

\* extract_artist_parts(None) raises AttributeError at name.lower()
extract_artist_parts_raises(artist_name) == artist_name = None

\* lines 32-59: the list parts before the duplicates are removed
RawParts(artist_name) ==
  LET name == artist_name
  IN  (IF Truthy(artist_name) THEN <<artist_name>> ELSE <<>>)
      \o SeparatorParts(name, separators)
      \o ParenParts(name, ParenMatches(name, 1))
      \o FirstWordPart(name)

extract_artist_parts(artist_name) == Dedupe(RawParts(artist_name), {})

(***************************************************************************)
(* analyze_playlist.py: split_artists                                      *)
(***************************************************************************)
\* lines 32-34: the state of the character scan
ScanStart == [parts |-> <<>>, buf |-> <<>>, depth |-> 0]

\* faulty variant: the depth goes below zero at an unmatched ")"
CloseDepth_Unclamped(d) == d - 1

\* line 40: max(depth - 1, 0)
CloseDepth(d) == IF d - 1 > 0 THEN d - 1 ELSE 0

\* faulty variant: every comma cuts
CutsAt_AnyDepth(ch, d) == ch = ","

\* line 42
CutsAt(ch, d) == ch = "," /\ d = 0

\* lines 36-46: one iteration of the for loop
ScanStep(st, ch) ==
  IF ch = "(" THEN [st EXCEPT !.depth = @ + 1, !.buf = Append(@, ch)]
  ELSE IF ch = ")" THEN [st EXCEPT !.depth = CloseDepth(@), !.buf = Append(@, ch)]
  ELSE IF CutsAt(ch, st.depth)
       THEN [st EXCEPT !.parts = Append(@, Strip(st.buf)), !.buf = <<>>]
  ELSE [st EXCEPT !.buf = Append(@, ch)]

\* lines 35-46: the for loop over the characters from position i on (the
\* test on nx makes TLC compute the state of one iteration before the next)
RECURSIVE ScanFrom(_, _, _)
ScanFrom(s, i, st) ==
  IF i > Len(s) THEN st
  ELSE LET nx == ScanStep(st, s[i])
       IN  IF nx.depth = nx.depth THEN ScanFrom(s, i + 1, nx) ELSE nx

\* lines 47-48
FlushBuf(st) ==
  IF Strip(st.buf) # <<>> THEN Append(st.parts, Strip(st.buf)) ELSE st.parts

\* line 53: the alternatives of the pattern, in order, matched with re.I
SplitTokens ==
  << <<"&">>, <<"f","e","a","t",".">>, <<"f","t",".">>,
     <<"f","e","a","t","u","r","i","n","g">> >>

\* the length of the run of whitespace that starts at position i of s
RECURSIVE SpaceRun(_, _)
SpaceRun(s, i) ==
  IF i <= Len(s) /\ IsSpace(s[i]) THEN 1 + SpaceRun(s, i + 1) ELSE 0

TokenAt(s, j, tok) ==
  /\ j + Len(tok) - 1 <= Len(s)
  /\ \A k \in DOMAIN tok : LowerChar(s[j + k - 1]) = tok[k]

\* line 53: the length of the match of \s+(?:&|feat\.|ft\.|featuring)\s+ at
\* position i of s, 0 when there is none. The first \s+ takes the whole run
\* (no alternative starts with whitespace), the last one is greedy.
MatchLen(s, i) ==
  LET r1 == SpaceRun(s, i)
      fits(t) == /\ TokenAt(s, i + r1, SplitTokens[t])
                 /\ SpaceRun(s, i + r1 + Len(SplitTokens[t])) > 0
  IN  IF r1 = 0 \/ ~\E t \in DOMAIN SplitTokens : fits(t) THEN 0
      ELSE LET t == CHOOSE u \in DOMAIN SplitTokens :
                      fits(u) /\ \A v \in 1..(u - 1) : ~fits(v)
               tl == Len(SplitTokens[t])
           IN  r1 + tl + SpaceRun(s, i + r1 + tl)

\* line 53: re.split, the piece that starts at from still open at position i
RECURSIVE ReSplitFrom(_, _, _, _)
ReSplitFrom(s, i, from, acc) ==
  IF i > Len(s) THEN Append(acc, SubSeq(s, from, Len(s)))
  ELSE LET m == MatchLen(s, i)
       IN  IF m > 0
           THEN ReSplitFrom(s, i + m, i + m, Append(acc, SubSeq(s, from, i - 1)))
           ELSE ReSplitFrom(s, i + 1, from, acc)

ReSplit(s) == ReSplitFrom(s, 1, 1, <<>>)

\* faulty variant: the test of line 56 dropped
KeepSegment_All(s2) == TRUE

\* line 56: if s2
KeepSegment(s2) == s2 # <<>>

\* lines 54-57
RECURSIVE StripKept(_)
StripKept(subs) ==
  IF subs = <<>> THEN <<>>
  ELSE LET s2 == Strip(Head(subs))
       IN  (IF KeepSegment(s2) THEN <<s2>> ELSE <<>>) \o StripKept(Tail(subs))

\* lines 51-57
RECURSIVE FurtherSplit(_)
FurtherSplit(ps) ==
  IF ps = <<>> THEN <<>>
  ELSE StripKept(ReSplit(Head(ps))) \o FurtherSplit(Tail(ps))

\* lines 21-58
split_artists(raw_name_arg) ==
  IF ~Truthy(raw_name_arg) THEN <<>>
  ELSE FurtherSplit(FlushBuf(ScanFrom(raw_name_arg, 1, ScanStart)))

(***************************************************************************)
(* State                                                                   *)
(***************************************************************************)
VARIABLES
  track_name,    \* search_discogs_release / get_metadata_from_sources argument
  artist_name,   \* argument
  album_name,    \* argument, None or "" when there is no album
  threshold,     \* argument, in hundredths
  pc,            \* position in search_discogs_release
  idx,           \* index of artist_part in extract_artist_parts(artist_name)
  parts,         \* the list the running for loop iterates over
  artist_hit,    \* artist.name of the accepted artist hit (line 120)
  calls,         \* the client.search calls issued so far, in order
  resp,          \* what the last client.search call gave
  exit,          \* which exit search_discogs_release took
  result,        \* the (genres, styles) returned
  gm_pc,         \* position in get_metadata_from_sources
  genres,        \* its local genres
  styles,        \* its local styles
  artist_id,     \* its local artist_id
  w,             \* the frame of the running retry_with_backoff wrapper
  mb_log,        \* the wrapped calls that ended, in order, with how they ended
  mb_end,        \* how the MusicBrainz try block was left
  gm_exit,       \* how get_metadata_from_sources was left
  deco,          \* the arguments of a retry_with_backoff decorator
  func_log,      \* what each invocation of the decorated func did, in order
  wrapper_value, \* the value the wrapper returned to its caller
  driver,        \* the batch driver that runs
  playlist,      \* the tracks it was given, in order
  track_no,      \* how many of them its loop has taken
  tracks_data,   \* the records it has appended, in order
  batch_exit,    \* how the driver was left
  raw_name,      \* split_artists argument
  sp_pc,         \* position in split_artists
  scan_i,        \* how many characters the for loop of line 35 has taken
  scan,          \* its locals parts, buf and depth
  final,         \* its local final, the list returned
  text_in,       \* clean_text argument
  text_out,      \* what clean_text gave, then what it gave for that
  sim_in,        \* is_similar arguments
  sim_out,       \* what is_similar returned, once it has
  art_in,        \* extract_artist_parts argument
  art_out,       \* what extract_artist_parts returned, once it has
  merge_in,      \* the spotify_genres and discogs_genres of a track
  all_genres,    \* the all_genres of its record, once it is built
  sa,            \* the frame of the running safe_api_call wrapper
  sa_log         \* what each invocation of its func did, in order

varsD == <<track_name, artist_name, album_name, threshold, pc, idx, parts, artist_hit,
           calls, resp, exit, result>>

varsS == <<gm_pc, genres, styles, artist_id, w, mb_log, mb_end, gm_exit>>

varsR == <<deco, func_log, wrapper_value>>

\* the state of the operations a specification leaves alone
varsB == <<driver, playlist, track_no, tracks_data, batch_exit>>

varsP == <<raw_name, sp_pc, scan_i, scan, final>>

\* the calls of clean_text, is_similar, extract_artist_parts and of the
\* all_genres merge
varsF == <<text_in, text_out, sim_in, sim_out, art_in, art_out, merge_in, all_genres>>

varsA == <<sa, sa_log>>

varsN == <<varsF, varsA>>

varsO == <<varsR, varsB, varsP, varsN>>

vars == <<varsD, varsS, varsO>>

(***************************************************************************)
(* The catalog client: what one client.search call can give                *)
(***************************************************************************)
NoResp ==
  [kind |-> "none", title |-> <<>>, artists |-> <<>>, name |-> <<>>,
   has_genres |-> FALSE, genres |-> <<>>, has_styles |-> FALSE, styles |-> <<>>]

\* "transient": the call raises a connection error, a timeout or a 5xx;
\* "error": it raises something else; "empty": no result on page 1;
\* "broken": a hit whose fields raise when read
Failure(k) == [NoResp EXCEPT !.kind = k]

FailureKinds == {"transient", "error", "empty", "broken"}

RaisingKinds == {"transient", "error", "broken"}

TrackNames == { <<"H","i","t">> }

ArtistNames == { None, <<>>, <<"A","b","b","a">>, <<"A","c","e",","," ","B","o">>,
                 <<"A","c","e"," ","(","B","o",")">> }

AlbumNames == { None, <<>>, <<"G","o","l","d">> }

Thresholds == {60, 80}

ReleaseTitles == { <<"g","o","l","d","!">>, <<"H","i","t">>, <<"Z","z","z">> }

ReleaseArtists == { <<>>, << <<"A","C","E">> >>, << <<"Z","e","d">>, <<"B","o">> >>,
                    << <<"Z","e","d">> >> }

\* a release without a genres attribute, with no genre, with one genre
GenreFields == { [has |-> FALSE, val |-> <<>>], [has |-> TRUE, val |-> <<>>],
                 [has |-> TRUE, val |-> <<"rock">>] }

StyleFields == { [has |-> FALSE, val |-> <<>>], [has |-> TRUE, val |-> <<"house">>] }

\* the first release of a result page; its genres and styles attributes are
\* fetched only when lines 94-95, 109-110 or 126-127 read them
Releases ==
  { [NoResp EXCEPT !.kind = "release", !.title = t, !.artists = a] :
    t \in ReleaseTitles, a \in ReleaseArtists }

\* the release with the attributes that reading them gave
WithFields(rel, g, st) ==
  [rel EXCEPT !.has_genres = g.has, !.genres = g.val,
              !.has_styles = st.has, !.styles = st.val]

ArtistHitNames == { <<"a","c","e">>, <<"A","b","b","a","!">>, <<"Z","e","d">>, <<>> }

ArtistHits == { [NoResp EXCEPT !.kind = "artist", !.name = n] : n \in ArtistHitNames }

ReleaseResponses == {Failure(k) : k \in FailureKinds} \cup Releases

ArtistResponses == {Failure(k) : k \in FailureKinds} \cup ArtistHits

(***************************************************************************)
(* discogs_search.py: search_discogs_release                               *)
(***************************************************************************)
EmptyResult == [genres |-> <<>>, styles |-> <<>>]

\* lines 94-95, 109-110, 126-127: the hasattr guards
ReleaseFields(rel) ==
  [genres |-> IF rel.has_genres THEN rel.genres ELSE <<>>,
   styles |-> IF rel.has_styles THEN rel.styles ELSE <<>>]

AnyArtistSimilar(rel, artist_part, thr) ==
  \E i \in DOMAIN rel.artists : is_similar(rel.artists[i], artist_part, thr)

\* faulty variant: the title test of line 91 dropped
AlbumAccepts_ArtistOnly(rel, query, artist_part, thr) ==
  AnyArtistSimilar(rel, artist_part, thr)

\* lines 91-93
AlbumAccepts(rel, query, artist_part, thr) ==
  is_similar(rel.title, query, thr) \/ AnyArtistSimilar(rel, artist_part, thr)

\* faulty variant: the album test copied into the track loop
TrackAccepts_TitleToo(rel, query, artist_part, thr) ==
  is_similar(rel.title, query, thr) \/ AnyArtistSimilar(rel, artist_part, thr)

\* lines 107-108
TrackAccepts(rel, query, artist_part, thr) ==
  AnyArtistSimilar(rel, artist_part, thr)

\* faulty variant: the test of line 121 dropped
ArtistHitAccepts_Any(hit, artist_part, thr) == TRUE

\* line 121
ArtistHitAccepts(hit, artist_part, thr) == is_similar(hit.name, artist_part, thr)

\* lines 124-127: the first release of the artist, with no check
ArtistReleaseAccepts(rel) == TRUE

\* faulty variant: the track loop placed before the album loop
StrategyOrder_TrackFirst == <<"track", "album", "artist">>

\* the order of the three loops, lines 83-129
StrategyOrder == <<"album", "track", "artist">>

Candidates == extract_artist_parts(artist_name)

\* lines 84, 100, 115: whether the loop of strategy s runs at all
StrategyRuns(s) == s # "album" \/ Truthy(album_name)

\* lines 131-132: the outer except Exception, which falls to line 135
OuterExcept == [pc |-> "done", idx |-> 0, exit |-> "error"]

\* faulty variant: a placeholder genre returned instead of the empty lists
ExhaustedReturn_Placeholder == [genres |-> <<"unknown">>, styles |-> <<>>]

\* line 135
ExhaustedReturn == [genres |-> <<>>, styles |-> <<>>]

\* the position reached when the loop of strategy number k is entered: a
\* loop that is skipped or has nothing to iterate falls through to the
\* next strategy, and past the last one to line 135
RECURSIVE EnterStrategy(_)
EnterStrategy(k) ==
  IF k > Len(StrategyOrder) THEN [pc |-> "done", idx |-> 0, exit |-> "exhausted"]
  ELSE IF ~StrategyRuns(StrategyOrder[k]) THEN EnterStrategy(k + 1)
  ELSE IF extract_artist_parts_raises(artist_name) THEN OuterExcept
  ELSE IF Candidates = <<>> THEN EnterStrategy(k + 1)
  ELSE [pc |-> StrategyOrder[k], idx |-> 1, exit |-> "none"]

StrategyIndex(s) == CHOOSE k \in DOMAIN StrategyOrder : StrategyOrder[k] = s

\* the loop of strategy s goes on to its next candidate
NextCandidate(s, i) ==
  IF i < Len(parts) THEN [pc |-> s, idx |-> i + 1, exit |-> "none"]
  ELSE EnterStrategy(StrategyIndex(s) + 1)

\* faulty variant: no inner try, the exception reaches the outer handler
OnCandidateError_Propagates(s, i) == OuterExcept

\* lines 96-97, 111-112, 128-129: except Exception: continue
OnCandidateError(s, i) == NextCandidate(s, i)

\* the client.search call of each position
CallOf(p, i) ==
  IF p = "album" THEN
    [strategy |-> "album", type |-> "release", query |-> album_name, artist |-> parts[i]]
  ELSE IF p = "track" THEN
    [strategy |-> "track", type |-> "release", query |-> track_name, artist |-> parts[i]]
  ELSE IF p = "artist" THEN
    [strategy |-> "artist", type |-> "artist", query |-> parts[i], artist |-> None]
  ELSE
    [strategy |-> "artist", type |-> "release", query |-> <<>>, artist |-> artist_hit]

Goto(pos) ==
  /\ pc' = pos.pc
  /\ idx' = pos.idx
  /\ exit' = pos.exit
  /\ result' = IF pos.pc = "done" THEN ExhaustedReturn ELSE result
  /\ parts' = IF pos.pc # "done" /\ pos.idx = 1 THEN Candidates ELSE parts

\* faulty variant: a release without genre data is passed over and the
\* cascade goes on with the next candidate
Return_NeedsGenreData(rel) ==
  \E g \in GenreFields, st \in StyleFields :
    /\ resp' = WithFields(rel, g, st)
    /\ IF ReleaseFields(WithFields(rel, g, st)) = EmptyResult
       THEN Goto(NextCandidate(IF pc = "artist_release" THEN "artist" ELSE pc, idx))
       ELSE /\ pc' = "done"
            /\ idx' = idx
            /\ exit' = "release"
            /\ parts' = parts
            /\ result' = ReleaseFields(WithFields(rel, g, st))

\* the return statements of lines 94-95, 109-110, 126-127
Return(rel) ==
  \E g \in GenreFields, st \in StyleFields :
    /\ resp' = WithFields(rel, g, st)
    /\ pc' = "done"
    /\ idx' = idx
    /\ exit' = "release"
    /\ parts' = parts
    /\ result' = ReleaseFields(WithFields(rel, g, st))

Inputs == <<track_name, artist_name, album_name, threshold>>

\* lines 82-85: the function is entered
Start ==
  /\ pc = "start"
  /\ Goto(EnterStrategy(1))
  /\ UNCHANGED <<Inputs, artist_hit, calls, resp, varsS, varsO>>

\* one pass of a release loop: lines 86-97 (album) and 101-112 (track)
ReleaseAttempt(s, query, Accepts(_, _, _, _)) ==
  /\ pc = s
  /\ calls' = Append(calls, CallOf(pc, idx))
  /\ \E r \in ReleaseResponses :
       IF r.kind \in RaisingKinds
       THEN resp' = r /\ Goto(OnCandidateError(s, idx))
       ELSE IF r.kind = "release" /\ Accepts(r, query, parts[idx], threshold)
            THEN Return(r)
       ELSE resp' = r /\ Goto(NextCandidate(s, idx))
  /\ UNCHANGED <<Inputs, artist_hit, varsS, varsO>>

AlbumAttempt == ReleaseAttempt("album", album_name, AlbumAccepts)

TrackAttempt == ReleaseAttempt("track", track_name, TrackAccepts)

\* lines 116-121: the artist search of the artist-only loop
ArtistAttempt ==
  /\ pc = "artist"
  /\ calls' = Append(calls, CallOf(pc, idx))
  /\ \E r \in ArtistResponses :
       /\ resp' = r
       /\ IF r.kind \in RaisingKinds
          THEN Goto(OnCandidateError("artist", idx)) /\ artist_hit' = artist_hit
          ELSE IF r.kind = "artist" /\ ArtistHitAccepts(r, parts[idx], threshold)
               THEN /\ pc' = "artist_release"
                    /\ artist_hit' = r.name
                    /\ UNCHANGED <<idx, parts, exit, result>>
          ELSE Goto(NextCandidate("artist", idx)) /\ artist_hit' = artist_hit
  /\ UNCHANGED <<Inputs, varsS, varsO>>

\* lines 123-129: the release search for the accepted artist hit
ArtistReleaseAttempt ==
  /\ pc = "artist_release"
  /\ calls' = Append(calls, CallOf(pc, idx))
  /\ \E r \in ReleaseResponses :
       IF r.kind \in RaisingKinds
       THEN resp' = r /\ Goto(OnCandidateError("artist", idx))
       ELSE IF r.kind = "release" /\ ArtistReleaseAccepts(r)
            THEN Return(r)
       ELSE resp' = r /\ Goto(NextCandidate("artist", idx))
  /\ UNCHANGED <<Inputs, artist_hit, varsS, varsO>>

(***************************************************************************)
(* retry_utils.py: retry_with_backoff                                      *)
(***************************************************************************)
\* the exceptions a wrapped call can raise, and the classes each is an
\* instance of (requests.exceptions: ConnectionError, Timeout and HTTPError
\* derive from RequestException; raise_for_status raises HTTPError for a 4xx
\* and for a 5xx status)
ErrorKinds == {"ConnectionError", "Timeout", "HTTPError5xx", "HTTPError4xx",
               "ConnectionResetError", "KeyError"}

ClassesOf(e) ==
  CASE e = "ConnectionError" -> {"ConnectionError", "RequestException", "Exception"}
    [] e = "Timeout" -> {"Timeout", "RequestException", "Exception"}
    [] e = "HTTPError5xx" -> {"HTTPError", "RequestException", "Exception"}
    [] e = "HTTPError4xx" -> {"HTTPError", "RequestException", "Exception"}
    [] e = "ConnectionResetError" -> {"ConnectionResetError", "Exception"}
    [] OTHER -> {e, "Exception"}

\* the exceptions the modelled calls raise: one per way the wrapper treats
\* them and per error kind of the catalog (Timeout and ConnectionResetError
\* are caught like ConnectionError)
CallErrors == {"ConnectionError", "HTTPError5xx", "HTTPError4xx", "KeyError"}

\* faulty variant: a bare except
Caught_Everything(e, exceptions) == TRUE

\* except exceptions as e
Caught(e, exceptions) == ClassesOf(e) \cap exceptions # {}

\* random.uniform(0.8, 1.2), in thousandths
JitterLo == 800

JitterHi == 1200

Jitters == {JitterLo, (JitterLo + JitterHi) \div 2, JitterHi}

RECURSIVE Pow2(_)
Pow2(n) == IF n <= 0 THEN 1 ELSE 2 * Pow2(n - 1)

\* faulty variant: the delay grows by backoff_in_seconds per retry
SleepTime_Linear(backoff_ms, retry_count, jitter) ==
  (backoff_ms * retry_count * jitter) \div 1000

\* line 35, in milliseconds
SleepTime(backoff_ms, retry_count, jitter) ==
  (backoff_ms * Pow2(retry_count - 1) * jitter) \div 1000

\* spotify_helpers.py lines 119-120 before the call
SaIdle ==
  [status |-> "idle", attempt |-> 0, sleeps |-> <<>>, last_error |-> "none",
   value |-> "none"]

IdleFrame ==
  [op |-> "none", status |-> "idle", retry_count |-> 0, attempts |-> 0,
   sleeps |-> <<>>, error |-> "none"]

\* lines 21-25: wrapper is entered
WrapperStart(op) == [IdleFrame EXCEPT !.op = op, !.status = "running"]

\* faulty variant: the test of line 31 is >=, one retry too few
WrapperStep_GivesUpEarly(f, raised, retries, backoff_ms, exceptions, jitter) ==
  LET f1 == [f EXCEPT !.attempts = @ + 1]
  IN  IF raised = "none" THEN [f1 EXCEPT !.status = "returned"]
      ELSE IF ~Caught(raised, exceptions)
           THEN [f1 EXCEPT !.status = "raised", !.error = raised]
      ELSE IF f.retry_count + 1 >= retries
           THEN [f1 EXCEPT !.status = "raised", !.error = raised,
                           !.retry_count = f.retry_count + 1]
      ELSE [f1 EXCEPT !.error = raised, !.retry_count = f.retry_count + 1,
                      !.sleeps = Append(@, SleepTime(backoff_ms, f.retry_count + 1, jitter))]

\* faulty variant: the sleep of lines 35-36 comes before the test of line 31,
\* so the wrapper also sleeps after the final failure
WrapperStep_SleepsFirst(f, raised, retries, backoff_ms, exceptions, jitter) ==
  LET f1 == [f EXCEPT !.attempts = @ + 1]
      f2 == [f1 EXCEPT !.error = raised, !.retry_count = f.retry_count + 1,
                       !.sleeps = Append(@, SleepTime(backoff_ms, f.retry_count + 1, jitter))]
  IN  IF raised = "none" THEN [f1 EXCEPT !.status = "returned"]
      ELSE IF ~Caught(raised, exceptions)
           THEN [f1 EXCEPT !.status = "raised", !.error = raised]
      ELSE IF f.retry_count + 1 > retries
           THEN [f2 EXCEPT !.status = "raised"]
      ELSE f2

\* lines 27-39: one pass of the while loop; raised is "none" when func
\* returned, else the exception it raised
WrapperStep(f, raised, retries, backoff_ms, exceptions, jitter) ==
  LET f1 == [f EXCEPT !.attempts = @ + 1]
  IN  IF raised = "none" THEN [f1 EXCEPT !.status = "returned"]
      ELSE IF ~Caught(raised, exceptions)
           THEN [f1 EXCEPT !.status = "raised", !.error = raised]
      ELSE IF f.retry_count + 1 > retries
           THEN [f1 EXCEPT !.status = "raised", !.error = raised,
                           !.retry_count = f.retry_count + 1]
      ELSE [f1 EXCEPT !.error = raised, !.retry_count = f.retry_count + 1,
                      !.sleeps = Append(@, SleepTime(backoff_ms, f.retry_count + 1, jitter))]

(***************************************************************************)
(* metadata_sources.py                                                     *)
(***************************************************************************)
RETRY_EXCEPTIONS ==
  {"RequestException", "ConnectionError", "Timeout", "HTTPError", "ConnectionResetError"}

\* the decorator arguments of lines 27, 45, 63 and 83
MbRetries == 3

MbBackoffMs == 1000

MbOps == {"search_release", "get_artist_tags", "search_recording"}

NoValue == [kind |-> "none", tags |-> <<>>, genres |-> <<>>, styles |-> <<>>]

\* what search_release / search_recording return: "empty": no record;
\* "no_credit": a first record without 'artist-credit'; "bad_credit": one
\* whose artist-credit cannot be indexed down to an id; "credit": one with an id
SearchValues == {[NoValue EXCEPT !.kind = k] :
                   k \in {"empty", "no_credit", "bad_credit", "credit"}}

TagLists == { <<>>, <<"rock">>, <<"rock", "pop">> }

TagValues == {[NoValue EXCEPT !.kind = "tags", !.tags = t] : t \in TagLists}

\* what the body of AllMusicScraper.search meets: an exception of a request,
\* no result link (line 118), a details page that is not 200 (line 124), or
\* the parsed lists
ScrapedValues ==
  {[NoValue EXCEPT !.kind = "parsed", !.genres = g, !.styles = st] :
     g \in {<<>>, <<"jazz">>}, st \in {<<>>, <<"bop">>}}
  \cup {[NoValue EXCEPT !.kind = k] : k \in {"no_link", "bad_status"}}

\* lines 88-151: the try/except of AllMusicScraper.search around its body;
\* the exception that leaves search, "none" when it returns
ScraperRaises(raised) == "none"

\* lines 167-173: get_metadata_from_sources is entered
GmStart ==
  /\ gm_pc = "start"
  /\ genres' = <<>>
  /\ styles' = <<>>
  /\ gm_pc' = IF Truthy(album_name) THEN "search_release" ELSE "search_recording"
  /\ UNCHANGED <<varsD, artist_id, w, mb_log, mb_end, gm_exit, varsO>>

\* faulty variant: the scraper called whatever MusicBrainz gave
ScraperNeeded_Always(g, st) == TRUE

\* line 198
ScraperNeeded(g, st) == g = <<>> /\ st = <<>>

\* lines 197-205 up to the scraper call
AfterMusicBrainz(g, st) == IF ScraperNeeded(g, st) THEN "scraper" ELSE "done"

OpOf(p) ==
  CASE p = "search_release" -> "search_release"
    [] p = "search_recording" -> "search_recording"
    [] p = "album_tags" -> "get_artist_tags"
    [] p = "recording_tags" -> "get_artist_tags"
    [] OTHER -> "am.search"

ArgsOf(p) ==
  CASE p = "search_release" -> <<album_name, artist_name>>
    [] p = "search_recording" -> <<track_name, artist_name>>
    [] p = "scraper" -> <<track_name, artist_name>>
    [] OTHER -> <<artist_id>>

ValuesOf(p) ==
  IF p \in {"search_release", "search_recording"} THEN SearchValues ELSE TagValues

LogEntry(p, f, v) ==
  [op |-> OpOf(p), args |-> ArgsOf(p), status |-> f.status, value |-> v]

\* faulty variant: an exception of the album step leads to the track query
MbRaised_TriesTrack ==
  /\ mb_end' = "raised"
  /\ gm_pc' = IF gm_pc \in {"search_release", "album_tags"} THEN "search_recording"
              ELSE AfterMusicBrainz(genres, styles)
  /\ UNCHANGED <<genres, styles, artist_id>>

\* faulty variant: the exception ends the lookups, the scraper included
MbRaised_EndsLookup ==
  /\ mb_end' = "raised"
  /\ gm_pc' = "done"
  /\ UNCHANGED <<genres, styles, artist_id>>

\* lines 194-195: except Exception leaves the try block
MbRaised ==
  /\ mb_end' = "raised"
  /\ gm_pc' = AfterMusicBrainz(genres, styles)
  /\ UNCHANGED <<genres, styles, artist_id>>

\* lines 191-192 and 197-198: the pacing sleep, then the scraper test
MbFinished(g) ==
  /\ mb_end' = "slept"
  /\ genres' = g
  /\ gm_pc' = AfterMusicBrainz(g, styles)
  /\ UNCHANGED <<styles, artist_id>>

\* lines 173-180 and 184-189 after the wrapped call at p returned v
MbReturned(p, v) ==
  CASE p = "search_release" ->
         IF v.kind = "credit"
         THEN gm_pc' = "album_tags" /\ artist_id' = "id" /\ UNCHANGED <<genres, styles, mb_end>>
         ELSE IF v.kind = "bad_credit" THEN MbRaised
         ELSE gm_pc' = "search_recording" /\ UNCHANGED <<genres, styles, artist_id, mb_end>>
    [] p = "album_tags" ->
         IF v.tags = <<>>
         THEN gm_pc' = "search_recording" /\ genres' = v.tags
              /\ UNCHANGED <<styles, artist_id, mb_end>>
         ELSE MbFinished(v.tags)
    [] p = "search_recording" ->
         IF v.kind = "credit"
         THEN gm_pc' = "recording_tags" /\ artist_id' = "id" /\ UNCHANGED <<genres, styles, mb_end>>
         ELSE IF v.kind = "bad_credit" THEN MbRaised
         ELSE MbFinished(genres)
    [] p = "recording_tags" -> MbFinished(v.tags)

\* one invocation of a wrapped MusicbrainzClient method (lines 27-70) from
\* lines 174, 180, 184, 189, with what the wrapper and the caller do next
MbInvoke ==
  /\ gm_pc \in {"search_release", "album_tags", "search_recording", "recording_tags"}
  /\ \E raised \in CallErrors \cup {"none"}, j \in Jitters :
       LET f0 == IF w.status = "running" THEN w ELSE WrapperStart(OpOf(gm_pc))
           f1 == WrapperStep(f0, raised, MbRetries, MbBackoffMs, RETRY_EXCEPTIONS, j)
       IN  /\ w' = f1
           /\ IF f1.status = "running"
              THEN UNCHANGED <<gm_pc, genres, styles, artist_id, mb_log, mb_end>>
              ELSE IF f1.status = "raised"
                   THEN /\ mb_log' = Append(mb_log, LogEntry(gm_pc, f1, NoValue))
                        /\ MbRaised
              ELSE \E v \in ValuesOf(gm_pc) :
                     /\ mb_log' = Append(mb_log, LogEntry(gm_pc, f1, v))
                     /\ MbReturned(gm_pc, v)
  /\ UNCHANGED <<varsD, gm_exit, varsO>>

\* lines 199-203: one invocation of the wrapped AllMusicScraper.search
ScraperInvoke ==
  /\ gm_pc = "scraper"
  /\ \E met \in CallErrors \cup {"none"}, j \in Jitters :
       LET f0 == IF w.status = "running" THEN w ELSE WrapperStart("am.search")
           raised == IF met = "none" THEN "none" ELSE ScraperRaises(met)
           f1 == WrapperStep(f0, raised, MbRetries, MbBackoffMs, RETRY_EXCEPTIONS, j)
       IN  /\ w' = f1
           /\ IF f1.status = "running"
              THEN UNCHANGED <<gm_pc, genres, styles, mb_log>>
              ELSE IF f1.status = "raised"
                   THEN /\ mb_log' = Append(mb_log, LogEntry(gm_pc, f1, NoValue))
                        /\ gm_pc' = "done"
                        /\ UNCHANGED <<genres, styles>>
              ELSE \E v \in (IF met = "none" THEN ScrapedValues
                             ELSE {[NoValue EXCEPT !.kind = "swallowed"]}) :
                     /\ mb_log' = Append(mb_log, LogEntry(gm_pc, f1, v))
                     /\ gm_pc' = "done"
                     /\ genres' = v.genres
                     /\ styles' = v.styles
  /\ UNCHANGED <<varsD, artist_id, mb_end, gm_exit, varsO>>

\* line 205
GmReturn ==
  /\ gm_pc = "done"
  /\ gm_exit = "none"
  /\ gm_exit' = "returned"
  /\ result' = [genres |-> genres, styles |-> styles]
  /\ UNCHANGED <<Inputs, pc, idx, parts, artist_hit, calls, resp, exit,
                 gm_pc, genres, styles, artist_id, w, mb_log, mb_end, varsO>>

(***************************************************************************)
(* retry_utils.py: one call of a func decorated with retry_with_backoff     *)
(***************************************************************************)
\* the largest retries argument tried
MaxRetries == 3

\* line 10: the default of exceptions
DefaultExceptions == {"Exception"}

\* backoff_in_seconds, in milliseconds (line 9 gives 1.0)
Backoffs == {500, 1000}

NoDeco == [retries |-> 0, backoff_in_seconds |-> 0, exceptions |-> {}]

\* lines 7-11: the decorator arguments
Decorators ==
  [retries : 0..MaxRetries, backoff_in_seconds : Backoffs,
   exceptions : {DefaultExceptions, RETRY_EXCEPTIONS}]

\* what one invocation of func does: it raises one of these ...
FuncErrors == {"ConnectionError", "HTTPError5xx", "KeyError"}

\* ... or it returns one of these
FuncValues == {"v1", "v2"}

\* lines 21-25: the decorated func is called and wrapper is entered
RwEnter ==
  /\ deco # NoDeco
  /\ w.status = "idle"
  /\ w' = WrapperStart("func")
  /\ UNCHANGED <<varsD, gm_pc, genres, styles, artist_id, mb_log, mb_end, gm_exit,
                 deco, func_log, wrapper_value, varsB, varsP, varsN>>

\* lines 26-39: one pass of the while loop, func invoked at line 28
RwPass ==
  /\ deco # NoDeco
  /\ w.status = "running"
  /\ \E outcome \in FuncErrors \cup FuncValues, j \in Jitters :
       LET raised == IF outcome \in FuncErrors THEN outcome ELSE "none"
           f1 == WrapperStep(w, raised, deco.retries, deco.backoff_in_seconds,
                             deco.exceptions, j)
       IN  /\ w' = f1
           /\ func_log' = Append(func_log, outcome)
           /\ wrapper_value' = IF f1.status = "returned" THEN outcome ELSE wrapper_value
  /\ UNCHANGED <<varsD, gm_pc, genres, styles, artist_id, mb_log, mb_end, gm_exit, deco,
                 varsB, varsP, varsN>>

(***************************************************************************)
(* The batch drivers: main.py enrich_with_discogs, music_analyzer.py       *)
(* MusicAnalyzer.analyze_playlist, analyze_playlist.py analyze_playlist,   *)
(* run_analysis_id.py process_playlist                                     *)
(***************************************************************************)
\* the longest playlist tried
MaxTracks == 2

Drivers ==
  {"enrich_with_discogs", "MusicAnalyzer.analyze_playlist", "analyze_playlist",
   "process_playlist"}

\* a track of the playlist: its name, the name of its one artist entry and
\* the name of its album, None for a local file without album
BatchTracks ==
  { [name |-> <<"H","i","t">>, artist |-> <<"A","b","b","a">>, album |-> <<"G","o","l","d">>],
    [name |-> <<"H","i","t">>, artist |-> <<"A","c","e",","," ","B","o">>, album |-> None] }

Playlists == UNION { [1..n -> BatchTracks] : n \in 0..MaxTracks }

BatchReleases ==
  { r \in Releases : r.title \in { <<"g","o","l","d","!">>, <<"Z","z","z">> }
                      /\ r.artists = << <<"Z","e","d">> >> }

\* what one catalog lookup of a driver can give: the search raises, page 1
\* is empty, the first hit raises when it is fetched or read, or it is a
\* release with or without genres and styles
BatchResponses ==
  {Failure(k) : k \in {"transient", "empty", "broken"}} \cup
  { WithFields(r, [has |-> TRUE, val |-> <<"rock">>], [has |-> TRUE, val |-> <<"house">>]) :
      r \in BatchReleases } \cup
  { WithFields(r, [has |-> FALSE, val |-> <<>>], [has |-> FALSE, val |-> <<>>]) :
      r \in {x \in BatchReleases : x.title = <<"Z","z","z">>} }

\* the record a driver appends for track t; rel, query, artist and failed
\* are not in the program: the release the lists were read from, the query
\* and artist of the search that gave it, and whether a lookup of this
\* track raised while none gave a release
Record(t, fields, rel, query, artist, failed) ==
  [track |-> t, discogs_genres |-> fields.genres, discogs_styles |-> fields.styles,
   rel |-> rel, query |-> query, artist |-> artist, failed |-> failed]

\* main.py lines 61-62: x if x else [], has = FALSE standing for None
TruthyFields(rel) ==
  [genres |-> IF rel.has_genres /\ rel.genres # <<>> THEN rel.genres ELSE <<>>,
   styles |-> IF rel.has_styles /\ rel.styles # <<>> THEN rel.styles ELSE <<>>]

\* music_analyzer.py lines 129-147: _search_discogs, the except of lines
\* 145-147 turns a lookup that raises into one without result
SearchDiscogs(r) == IF r.kind \in RaisingKinds THEN Failure("empty") ELSE r

\* main.py lines 39-70: one iteration of the loop of enrich_with_discogs;
\* an exception of d.search, page(1) or d.release leaves the function
EnrichTrack ==
  /\ driver = "enrich_with_discogs"
  /\ batch_exit = "none"
  /\ track_no < Len(playlist)
  /\ track_no' = track_no + 1
  /\ \E r \in BatchResponses :
       LET t == playlist[track_no + 1]
       IN  IF r.kind \in RaisingKinds
           THEN batch_exit' = "raised" /\ UNCHANGED tracks_data
           ELSE /\ tracks_data' =
                     Append(tracks_data,
                            IF r.kind = "release"
                            THEN Record(t, TruthyFields(r), r, t.album, t.artist, FALSE)
                            ELSE Record(t, EmptyResult, NoResp, t.album, t.artist, FALSE))
                /\ UNCHANGED batch_exit
  /\ UNCHANGED <<varsN, varsD, varsS, varsR, varsP, driver, playlist>>

\* music_analyzer.py lines 68-73 with get_detailed_track_info (lines 31-58):
\* one iteration of the loop of MusicAnalyzer.analyze_playlist
AnalyzerTrack ==
  /\ driver = "MusicAnalyzer.analyze_playlist"
  /\ batch_exit = "none"
  /\ track_no < Len(playlist)
  /\ track_no' = track_no + 1
  /\ \E r \in BatchResponses :
       LET t == playlist[track_no + 1]
           got == SearchDiscogs(r)
       IN  tracks_data' =
             Append(tracks_data,
                    IF got.kind = "release"
                    THEN Record(t, ReleaseFields(got), got, t.album, t.artist, FALSE)
                    ELSE Record(t, EmptyResult, NoResp, t.album, t.artist,
                                r.kind \in RaisingKinds))
  /\ UNCHANGED <<varsN, varsD, varsS, varsR, varsP, driver, playlist, batch_exit>>

\* analyze_playlist.py lines 208-220 and 224-236, run_analysis_id.py lines
\* 58-70 and 73-85: the index of the first artist name whose search gave a
\* release, 0 when none did; outs[off + i] is what the search for names[i]
\* gave, and a search that raises is skipped by the except
FirstHit(names, outs, off) ==
  IF \E i \in DOMAIN names : outs[off + i].kind = "release"
  THEN CHOOSE i \in DOMAIN names :
         /\ outs[off + i].kind = "release"
         /\ \A j \in 1..(i - 1) : outs[off + j].kind # "release"
  ELSE 0

\* analyze_playlist.py lines 203-239, run_analysis_id.py lines 52-87: the
\* catalog block of one track, the first hit of a search taken as it is
PlaylistLookup(t, outs) ==
  LET names == split_artists(t.artist)
      search_album == IF Truthy(t.album) THEN t.album ELSE t.name
      a == FirstHit(names, outs, 0)
      b == FirstHit(names, outs, Len(names))
  IN  IF a > 0
      THEN Record(t, ReleaseFields(outs[a]), outs[a], search_album, names[a], FALSE)
      ELSE IF b > 0
      THEN Record(t, ReleaseFields(outs[Len(names) + b]), outs[Len(names) + b],
                  t.name, names[b], FALSE)
      ELSE Record(t, EmptyResult, NoResp, t.name, t.artist,
                  \E i \in DOMAIN outs : outs[i].kind \in RaisingKinds)

PlaylistTrack(d) ==
  /\ driver = d
  /\ batch_exit = "none"
  /\ track_no < Len(playlist)
  /\ track_no' = track_no + 1
  /\ LET t == playlist[track_no + 1]
     IN  \E outs \in [1..(2 * Len(split_artists(t.artist))) -> BatchResponses] :
           tracks_data' = Append(tracks_data, PlaylistLookup(t, outs))
  /\ UNCHANGED <<varsN, varsD, varsS, varsR, varsP, driver, playlist, batch_exit>>

\* analyze_playlist.py lines 123-275: one iteration of the loop
AnalyzeTrack == PlaylistTrack("analyze_playlist")

\* run_analysis_id.py lines 26-98: one iteration of the loop
ProcessTrack == PlaylistTrack("process_playlist")

\* main.py line 72, music_analyzer.py line 75, analyze_playlist.py line 277,
\* run_analysis_id.py line 100: the loop is over
BatchDone ==
  /\ driver \in Drivers
  /\ batch_exit = "none"
  /\ track_no = Len(playlist)
  /\ batch_exit' = "returned"
  /\ UNCHANGED <<varsN, varsD, varsS, varsR, varsP, driver, playlist, track_no, tracks_data>>

(***************************************************************************)
(* analyze_playlist.py: one call of split_artists                          *)
(***************************************************************************)
\* the longest raw_name built from SplitAlphabet
MaxLen == 5

SplitAlphabet == {"a", ",", "(", ")", " ", "&"}

\* the example of the docstring, lines 26-27
DocExample ==
  <<"Y","a","s","u","n","o","r","i"," ","M","i","t","s","u","d","a",",",
  " ","A","C","E"," ","(","T","O","M","O","r","i"," ","K","u","d","o",
  ","," ","C","H","i","C","O",")",","," ","K","e","n","j","i"," ","H",
  "i","r","a","m","a","t","s","u">>

SplitExamples ==
  { DocExample,
    <<"a"," ","&"," ","b",","," ","c">>,
    <<"A"," ","F","e","a","t","."," ","B">>,
    <<"x"," ","f","t","."," ","y"," ","(","p",","," ","q",")",","," ","z">>,
    <<"a"," ","f","e","a","t","u","r","i","n","g"," ","b">>,
    <<"a",")",",","b">>,
    <<"\t","a"," ",",",","," ","(","b">> }

RawNames ==
  {None} \cup UNION { [1..n -> SplitAlphabet] : n \in 0..MaxLen } \cup SplitExamples

\* lines 29-34
SplitEnter ==
  /\ sp_pc = "start"
  /\ IF ~Truthy(raw_name)
     THEN sp_pc' = "done" /\ final' = <<>>
     ELSE sp_pc' = "scan" /\ UNCHANGED final
  /\ scan' = ScanStart
  /\ scan_i' = 0
  /\ UNCHANGED <<varsN, varsD, varsS, varsR, varsB, raw_name>>

\* lines 35-46: one iteration of the for loop
ScanChar ==
  /\ sp_pc = "scan"
  /\ scan_i < Len(raw_name)
  /\ scan' = ScanStep(scan, raw_name[scan_i + 1])
  /\ scan_i' = scan_i + 1
  /\ UNCHANGED <<varsN, varsD, varsS, varsR, varsB, raw_name, sp_pc, final>>

\* lines 47-48: the for loop is over
ScanEnd ==
  /\ sp_pc = "scan"
  /\ scan_i = Len(raw_name)
  /\ scan' = [scan EXCEPT !.parts = FlushBuf(scan)]
  /\ sp_pc' = "resplit"
  /\ UNCHANGED <<varsN, varsD, varsS, varsR, varsB, raw_name, scan_i, final>>

\* lines 51-58
SplitReturn ==
  /\ sp_pc = "resplit"
  /\ final' = FurtherSplit(scan.parts)
  /\ sp_pc' = "done"
  /\ UNCHANGED <<varsN, varsD, varsS, varsR, varsB, raw_name, scan_i, scan>>

(***************************************************************************)
(* Calls of the pure functions of discogs_search.py                        *)
(***************************************************************************)
\* the arguments of is_similar and the two lists of the merge when neither runs
NoSimilar == [str1 |-> None, str2 |-> None, threshold |-> 80]

NoMerge == [spotify_genres |-> <<>>, discogs_genres |-> <<>>]

\* the longest clean_text argument built from TextAlphabet
MaxText == 3

TextAlphabet == {"a", "B", "1", "_", "!", " ", "\t", "U+0130"}

TextInputs == {None} \cup UNION { [1..n -> TextAlphabet] : n \in 0..MaxText }

\* lines 6-13: clean_text is called on text_in, then on what it returned
CleanText ==
  /\ text_in \in TextInputs
  /\ Len(text_out) < 2
  /\ text_out' = Append(text_out, clean_text(IF text_out = <<>> THEN text_in
                                              ELSE text_out[Len(text_out)]))
  /\ UNCHANGED <<varsD, varsS, varsR, varsB, varsP, varsA, text_in,
                 sim_in, sim_out, art_in, art_out, merge_in, all_genres>>

\* the longest is_similar argument built from SimAlphabet
MaxSim == 2

SimAlphabet == {"a", "b", "!"}

SimStrings == {None} \cup UNION { [1..n -> SimAlphabet] : n \in 0..MaxSim }

\* hundredths; the default of line 15 is 80
SimThresholds == {-50, 0, 1, 50, 80, 100}

SimInputs == [str1 : SimStrings, str2 : SimStrings, threshold : SimThresholds]

\* lines 15-23: is_similar is called on sim_in
IsSimilar ==
  /\ sim_in \in SimInputs
  /\ sim_out = <<>>
  /\ sim_out' = <<is_similar(sim_in.str1, sim_in.str2, sim_in.threshold)>>
  /\ UNCHANGED <<varsD, varsS, varsR, varsB, varsP, varsA, text_in, text_out,
                 sim_in, art_in, art_out, merge_in, all_genres>>

\* the longest extract_artist_parts argument built from NameAlphabet
MaxName == 4

NameAlphabet == {"a", "b", ",", " ", "(", ")"}

\* the example of the docstring, line 29
DocArtist ==
  <<"Y","a","s","u","n","o","r","i"," ","M","i","t","s","u","d","a",","," ","A","C","E"," ","(","T","O","M","O","r","i"," ","K","u","d","o",","," ","C","H","i","C","O",")">>

NameExamples ==
  { DocArtist,
    <<"S","y","s","t","e","m"," ","o","f"," ","a"," ","D","o","w","n">>,
    <<"T","h","e"," ","B","e","a","t","l","e","s">>,
    <<"A"," ","&"," ","B"," ","f","e","a","t","."," ","C">>,
    <<"x"," ","f","t","."," ","y"," ","(","p",","," ","q",")">>,
    <<"A","c","e"," ","f","e","a","t","u","r","i","n","g"," ","B","o">> }

NameInputs == NameExamples \cup UNION { [1..n -> NameAlphabet] : n \in 0..MaxName }

\* lines 25-63: extract_artist_parts is called on art_in
ExtractArtistParts ==
  /\ art_out = <<>>
  /\ art_out' = <<extract_artist_parts(art_in)>>
  /\ UNCHANGED <<varsD, varsS, varsR, varsB, varsP, varsA, text_in, text_out,
                 sim_in, sim_out, art_in, merge_in, all_genres>>

(***************************************************************************)
(* analyze_playlist.py: the genre lists of a track record                  *)
(***************************************************************************)
\* the longest genre list of either source
MaxGenres == 2

GenreNames == {"rock", "pop", "jazz"}

GenreLists == UNION { [1..n -> GenreNames] : n \in 0..MaxGenres }

MergeInputs == [spotify_genres : GenreLists, discogs_genres : GenreLists]

\* line 192, list(dict.fromkeys(l)): each entry at its first occurrence
RECURSIVE DictFromKeys(_, _)
DictFromKeys(l, seen) ==
  IF l = <<>> THEN <<>>
  ELSE IF Head(l) \in seen THEN DictFromKeys(Tail(l), seen)
       ELSE <<Head(l)>> \o DictFromKeys(Tail(l), seen \cup {Head(l)})

\* line 264, list(set(l)): the members of the set, in an order the language
\* does not fix
ListOfSet(l) ==
  LET members == {l[i] : i \in DOMAIN l}
  IN  { f \in [1..Cardinality(members) -> members] :
          \A i, j \in DOMAIN f : i # j => f[i] # f[j] }

\* lines 192 and 252-266: the genre lists of the record of one track
BuildRecord ==
  /\ all_genres = <<>>
  /\ LET spotify_genres == DictFromKeys(merge_in.spotify_genres, {})
     IN  \E merged \in ListOfSet(spotify_genres \o merge_in.discogs_genres) :
           all_genres' = <<[spotify_genres |-> spotify_genres,
                            discogs_genres |-> merge_in.discogs_genres,
                            all_genres |-> merged]>>
  /\ UNCHANGED <<varsD, varsS, varsR, varsB, varsP, varsA, text_in, text_out,
                 sim_in, sim_out, art_in, art_out, merge_in>>

(***************************************************************************)
(* spotify_helpers.py: safe_api_call                                       *)
(***************************************************************************)
\* line 119
max_retries == 3

\* exceptions of class Exception that the wrapped func raises
SafeErrors == {"SpotifyException", "ConnectionError", "ReadTimeout", "KeyError"}

\* results that are not None, an empty list among them
SafeValues == {"[]", "track"}

SafeOutcomes == SafeErrors \cup {"None"} \cup SafeValues

\* faulty variant: the sleep follows every failed attempt, the last and the
\* ones that returned None included
SafePass_AlwaysSleeps(f, outcome) ==
  IF outcome \in SafeValues
  THEN [f EXCEPT !.status = "returned", !.value = outcome]
  ELSE LET f1 == [f EXCEPT !.sleeps = Append(@, 1000 * (f.attempt + 1)),
                           !.last_error = IF outcome \in SafeErrors THEN outcome ELSE @]
       IN  IF f.attempt + 1 < max_retries
           THEN [f1 EXCEPT !.attempt = @ + 1]
           ELSE [f1 EXCEPT !.attempt = @ + 1, !.status = "returned", !.value = "None"]

\* lines 122-133: one pass of the for loop with func giving outcome, and,
\* when the loop is over, the return of None
SafePass(f, outcome) ==
  IF outcome \in SafeValues
  THEN [f EXCEPT !.status = "returned", !.value = outcome]
  ELSE LET f1 == IF outcome \in SafeErrors
                 THEN [f EXCEPT !.last_error = outcome,
                                !.sleeps = IF f.attempt < max_retries - 1
                                           THEN Append(@, 1000 * (f.attempt + 1))
                                           ELSE @]
                 ELSE f
       IN  IF f.attempt + 1 < max_retries
           THEN [f1 EXCEPT !.attempt = @ + 1]
           ELSE [f1 EXCEPT !.attempt = @ + 1, !.status = "returned", !.value = "None"]

\* lines 118-120: the wrapper is called
SafeEnter ==
  /\ sa.status = "idle"
  /\ sa' = [SaIdle EXCEPT !.status = "running"]
  /\ UNCHANGED <<varsD, varsS, varsR, varsB, varsP, varsF, sa_log>>

\* lines 122-133: func is invoked once more
SafeAttempt ==
  /\ sa.status = "running"
  /\ \E outcome \in SafeOutcomes :
       /\ sa' = SafePass(sa, outcome)
       /\ sa_log' = Append(sa_log, outcome)
  /\ UNCHANGED <<varsD, varsS, varsR, varsB, varsP, varsF>>

(***************************************************************************)
(* Specifications                                                          *)
(***************************************************************************)
InitInputs ==
  /\ track_name \in TrackNames
  /\ artist_name \in ArtistNames
  /\ album_name \in AlbumNames
  /\ threshold \in Thresholds

InitDiscogs(p) ==
  /\ pc = p
  /\ idx = 0
  /\ parts = <<>>
  /\ artist_hit = None
  /\ calls = <<>>
  /\ resp = NoResp
  /\ exit = "none"
  /\ result = EmptyResult

InitSources(p) ==
  /\ gm_pc = p
  /\ genres = <<>>
  /\ styles = <<>>
  /\ artist_id = "none"
  /\ w = IdleFrame
  /\ mb_log = <<>>
  /\ mb_end = "none"
  /\ gm_exit = "none"

InitRetry ==
  /\ deco = NoDeco
  /\ func_log = <<>>
  /\ wrapper_value = "none"

InitBatch ==
  /\ driver = "none"
  /\ playlist = <<>>
  /\ track_no = 0
  /\ tracks_data = <<>>
  /\ batch_exit = "none"

InitSplit ==
  /\ raw_name = None
  /\ sp_pc = "idle"
  /\ scan_i = 0
  /\ scan = ScanStart
  /\ final = <<>>

\* no call of clean_text, is_similar, extract_artist_parts or of the merge
InitFunctions ==
  /\ text_in = None
  /\ text_out = <<>>
  /\ sim_in = NoSimilar
  /\ sim_out = <<>>
  /\ art_in = None
  /\ art_out = <<>>
  /\ merge_in = NoMerge
  /\ all_genres = <<>>

InitSafe ==
  /\ sa = SaIdle
  /\ sa_log = <<>>

InitNew == InitFunctions /\ InitSafe

InitOther == InitRetry /\ InitBatch /\ InitSplit /\ InitNew

\* one call of search_discogs_release
Init == InitInputs /\ InitDiscogs("start") /\ InitSources("idle") /\ InitOther

Next ==
  \/ Start
  \/ AlbumAttempt
  \/ TrackAttempt
  \/ ArtistAttempt
  \/ ArtistReleaseAttempt

Spec == Init /\ [][Next]_vars

\* one call of get_metadata_from_sources
InitGm ==
  /\ track_name \in TrackNames
  /\ artist_name \in ArtistNames \ {None, <<>>}
  /\ album_name \in AlbumNames
  /\ threshold = 80
  /\ InitDiscogs("idle")
  /\ InitSources("start")
  /\ InitOther

NextGm ==
  \/ GmStart
  \/ MbInvoke
  \/ ScraperInvoke
  \/ GmReturn

SpecSources == InitGm /\ [][NextGm]_vars

\* one call of a decorated func
InitRw ==
  /\ track_name \in TrackNames
  /\ artist_name = None
  /\ album_name = None
  /\ threshold = 80
  /\ InitDiscogs("idle")
  /\ InitSources("idle")
  /\ deco \in Decorators
  /\ func_log = <<>>
  /\ wrapper_value = "none"
  /\ InitBatch
  /\ InitSplit
  /\ InitNew

NextRw ==
  \/ RwEnter
  \/ RwPass

SpecRetry == InitRw /\ [][NextRw]_vars

\* one run of a batch driver over a playlist
InitDrivers ==
  /\ track_name \in TrackNames
  /\ artist_name = None
  /\ album_name = None
  /\ threshold = 80
  /\ InitDiscogs("idle")
  /\ InitSources("idle")
  /\ InitRetry
  /\ InitSplit
  /\ InitNew
  /\ driver \in Drivers
  /\ playlist \in Playlists
  /\ track_no = 0
  /\ tracks_data = <<>>
  /\ batch_exit = "none"

NextBatch ==
  \/ EnrichTrack
  \/ AnalyzerTrack
  \/ AnalyzeTrack
  \/ ProcessTrack
  \/ BatchDone

SpecBatch == InitDrivers /\ [][NextBatch]_vars

\* one call of split_artists
InitSplitCall ==
  /\ track_name \in TrackNames
  /\ artist_name = None
  /\ album_name = None
  /\ threshold = 80
  /\ InitDiscogs("idle")
  /\ InitSources("idle")
  /\ InitRetry
  /\ InitBatch
  /\ InitNew
  /\ raw_name \in RawNames
  /\ sp_pc = "start"
  /\ scan_i = 0
  /\ scan = ScanStart
  /\ final = <<>>

NextSplit ==
  \/ SplitEnter
  \/ ScanChar
  \/ ScanEnd
  \/ SplitReturn

SpecSplit == InitSplitCall /\ [][NextSplit]_vars

\* the state in which none of the operations above runs
InitIdle ==
  /\ track_name \in TrackNames
  /\ artist_name = None
  /\ album_name = None
  /\ threshold = 80
  /\ InitDiscogs("idle")
  /\ InitSources("idle")
  /\ InitRetry
  /\ InitBatch
  /\ InitSplit

\* clean_text called on a string and on its own result
InitText ==
  /\ InitIdle
  /\ InitSafe
  /\ text_in \in TextInputs
  /\ text_out = <<>>
  /\ sim_in = NoSimilar
  /\ sim_out = <<>>
  /\ art_in = None
  /\ art_out = <<>>
  /\ merge_in = NoMerge
  /\ all_genres = <<>>

NextText == CleanText

SpecText == InitText /\ [][NextText]_vars

(***************************************************************************)
(* Properties of search_discogs_release (Spec)                             *)
(***************************************************************************)
Last(q) == q[Len(q)]

\* the catalog calls that open an attempt: every call but the release
\* search that follows an accepted artist hit
PrimaryCalls ==
  SelectSeq(calls, LAMBDA c : ~(c.strategy = "artist" /\ c.type = "release"))

AttemptsOf(s, t) ==
  [i \in 1..Len(extract_artist_parts(artist_name)) |->
     [strategy |-> s, type |-> t,
      query |-> IF s = "album" THEN album_name
                ELSE IF s = "track" THEN track_name
                ELSE extract_artist_parts(artist_name)[i],
      artist |-> IF s = "artist" THEN None ELSE extract_artist_parts(artist_name)[i]]]

\* album, then track, then artist-only, each over the candidates in order
ExpectedPlan ==
  IF artist_name = None THEN <<>>
  ELSE (IF Truthy(album_name) THEN AttemptsOf("album", "release") ELSE <<>>)
       \o AttemptsOf("track", "release") \o AttemptsOf("artist", "artist")

\* the function stands before the attempt that follows the last one made,
\* or has returned empty-handed when there is none left
AtNextAttempt ==
  LET n == Len(PrimaryCalls)
  IN  IF n < Len(ExpectedPlan)
      THEN pc \in {"album", "track", "artist"} /\ CallOf(pc, idx) = ExpectedPlan[n + 1]
      ELSE pc = "done" /\ exit = "exhausted"

SomeArtistSimilarTo(rel, name) ==
  \E i \in DOMAIN rel.artists : is_similar(rel.artists[i], name, threshold)

\* the last call gave a release that its strategy accepts
LastAccepted ==
  /\ calls # <<>>
  /\ resp.kind = "release"
  /\ LET c == Last(calls)
     IN  CASE c.strategy = "album" ->
                is_similar(resp.title, album_name, threshold)
                \/ SomeArtistSimilarTo(resp, c.artist)
           [] c.strategy = "track" -> SomeArtistSimilarTo(resp, c.artist)
           [] OTHER -> TRUE

Returned(rel) ==
  /\ pc = "done"
  /\ exit = "release"
  /\ result = [genres |-> IF rel.has_genres THEN rel.genres ELSE <<>>,
               styles |-> IF rel.has_styles THEN rel.styles ELSE <<>>]

\* C1: the attempts are made in the order album, track, artist-only, each
\* over the candidates in the order of extract_artist_parts; the first
\* accepted release is returned, and the call that gave it is the last one
C1_StrictOrderFirstSuccessWins ==
  /\ Len(PrimaryCalls) <= Len(ExpectedPlan)
  /\ \A k \in 1..Len(PrimaryCalls) : PrimaryCalls[k] = ExpectedPlan[k]
  /\ LastAccepted => Returned(resp)
  /\ exit = "release" => LastAccepted

\* an album attempt failed, a later strategy accepted: the result is that
\* release's and no call follows
C1_Witness ==
  /\ Returned(resp)
  /\ Last(calls).strategy = "track"
  /\ Truthy(album_name)
  /\ Len(calls) < Len(ExpectedPlan)
  /\ result.genres # <<>>

\* C2: no exception leaves the function; after a call, or the reading of
\* its result, raised for one candidate, the function stands before the
\* next attempt of the plan
C2_ErrorsSwallowed ==
  /\ exit # "raised"
  /\ (calls # <<>> /\ resp.kind \in RaisingKinds) => AtNextAttempt

\* the first album candidate raised and the second is being tried
C2_Witness ==
  /\ Len(calls) = 1
  /\ resp.kind \in RaisingKinds
  /\ pc = "album"
  /\ idx = 2

\* C3: when every attempt of the plan was made and none was accepted, the
\* function returns ([], [])
C3_ExhaustedReturnsEmpty ==
  (pc = "done" /\ Len(PrimaryCalls) = Len(ExpectedPlan) /\ ~LastAccepted)
    => (result = [genres |-> <<>>, styles |-> <<>>] /\ exit \in {"exhausted", "error"})

\* all three strategies ran over several candidates and failed
C3_Witness ==
  /\ pc = "done"
  /\ exit = "exhausted"
  /\ Len(calls) >= 9
  /\ ~LastAccepted

\* C4: a release read in the album strategy is returned exactly when its
\* title is similar to album_name or one of its artists is similar to the
\* candidate; otherwise the next attempt follows
C4_AlbumAcceptance ==
  (calls # <<>> /\ Last(calls).strategy = "album" /\ resp.kind = "release")
    => IF is_similar(resp.title, album_name, threshold)
          \/ SomeArtistSimilarTo(resp, Last(calls).artist)
       THEN Returned(resp)
       ELSE exit # "release" /\ AtNextAttempt

\* accepted on the title alone, no artist being similar
C4_Witness ==
  /\ calls # <<>>
  /\ Last(calls).strategy = "album"
  /\ Returned(resp)
  /\ resp.artists # <<>>
  /\ ~SomeArtistSimilarTo(resp, Last(calls).artist)

\* C5: a release read in the track strategy is returned exactly when one
\* of its artists is similar to the candidate, whatever its title
C5_TrackAcceptance ==
  (calls # <<>> /\ Last(calls).strategy = "track" /\ resp.kind = "release")
    => IF SomeArtistSimilarTo(resp, Last(calls).artist)
       THEN Returned(resp)
       ELSE exit # "release" /\ AtNextAttempt

\* the title equals the track name, no artist is similar: not accepted
C5_Witness ==
  /\ calls # <<>>
  /\ Last(calls).strategy = "track"
  /\ resp.kind = "release"
  /\ is_similar(resp.title, track_name, threshold)
  /\ ~SomeArtistSimilarTo(resp, Last(calls).artist)
  /\ exit # "release"

IsArtistRelease(c) == c.strategy = "artist" /\ c.type = "release"

IsArtistSearch(c) == c.strategy = "artist" /\ c.type = "artist"

\* C6: a release search of the artist-only strategy directly follows an
\* artist search whose top hit is similar to the candidate, and asks for
\* that hit's releases; a hit that is not similar is followed by no release
\* search; the first release found is returned without any check
C6_ArtistOnly ==
  /\ \A k \in DOMAIN calls :
       IsArtistRelease(calls[k]) =>
         /\ k > 1
         /\ IsArtistSearch(calls[k - 1])
         /\ is_similar(calls[k].artist, calls[k - 1].query, threshold)
  /\ (calls # <<>> /\ IsArtistSearch(Last(calls)) /\ resp.kind = "artist")
       => IF is_similar(resp.name, Last(calls).query, threshold)
          THEN pc = "artist_release" /\ artist_hit = resp.name
          ELSE AtNextAttempt
  /\ (calls # <<>> /\ IsArtistRelease(Last(calls)) /\ resp.kind = "release")
       => Returned(resp)

\* a release with no similar title and no artist is returned
C6_Witness ==
  /\ calls # <<>>
  /\ IsArtistRelease(Last(calls))
  /\ Returned(resp)
  /\ resp.artists = <<>>
  /\ ~is_similar(resp.title, track_name, threshold)
  /\ ~is_similar(resp.title, album_name, threshold)

\* C7: get_metadata_from_sources has been started when, and only when, the
\* album, track and artist-only strategies were tried and all failed
C7_SecondaryIffPrimaryFailed ==
  pc = "done" => ((gm_pc # "idle") <=> (calls # <<>> /\ ~LastAccepted))

\* the retries argument retry_with_backoff defaults to
DefaultRetries == 3

RECURSIVE RepeatsAtEnd(_)
RepeatsAtEnd(q) ==
  IF Len(q) <= 1 THEN Len(q)
  ELSE IF q[Len(q) - 1] = q[Len(q)] THEN 1 + RepeatsAtEnd(SubSeq(q, 1, Len(q) - 1))
  ELSE 1

\* C9: after a client.search call failed with a transient error the same
\* call is issued again, unless it was already issued retries + 1 times
C9_TransientRetried ==
  (calls # <<>> /\ resp.kind = "transient")
    => \/ pc \in {"album", "track", "artist", "artist_release"}
          /\ CallOf(pc, idx) = Last(calls)
       \/ RepeatsAtEnd(calls) >= DefaultRetries + 1

(***************************************************************************)
(* Properties of get_metadata_from_sources (SpecSources)                   *)
(***************************************************************************)
\* a get_artist_tags call returned at least one tag
TagsProduced ==
  \E k \in DOMAIN mb_log :
    /\ mb_log[k].op = "get_artist_tags"
    /\ mb_log[k].status = "returned"
    /\ mb_log[k].value.tags # <<>>

ScraperCalled ==
  \/ \E k \in DOMAIN mb_log : mb_log[k].op = "am.search"
  \/ w.op = "am.search"

\* C8: AllMusicScraper.search is called exactly when the MusicBrainz steps
\* ended, by returning or by raising, without a tag
C8_ScraperIffNoTags ==
  /\ gm_pc = "done" => (ScraperCalled <=> ~TagsProduced)
  /\ ScraperCalled => gm_pc \in {"scraper", "done"}
  /\ gm_pc = "scraper" => ~TagsProduced

\* the MusicBrainz block raised and the scraper was called
C8_Witness ==
  /\ gm_pc = "done"
  /\ mb_end = "raised"
  /\ ScraperCalled
  /\ genres # <<>>

\* C10: a wrapped MusicbrainzClient call that met an HTTP 4xx is over: it
\* was invoked once and slept for no backoff
C10_NotFoundNotRetried ==
  (w.op \in MbOps /\ w.error = "HTTPError4xx")
    => (w.status = "raised" /\ w.attempts = 1 /\ w.sleeps = <<>>)

(***************************************************************************)
(* Properties of get_metadata_from_sources on an exhausted wrapper         *)
(***************************************************************************)
\* a wrapped MusicBrainz call has just raised out of its wrapper after the
\* last retry the decorator allows
ExhaustedMb ==
  /\ w.op \in MbOps
  /\ w.status = "raised"
  /\ w.retry_count > MbRetries
  /\ \E c \in ClassesOf(w.error) : c \in RETRY_EXCEPTIONS

\* C11 as stated: when the retry wrapper around a MusicBrainz call has
\* exhausted its retries on a transient error, get_metadata_from_sources is
\* left by that error, which reaches its caller.
C11_ExhaustedPropagates == ExhaustedMb => (gm_pc = "done" /\ gm_exit = "raised")

\* C11 amended: when the retry wrapper around a MusicBrainz call has exhausted
\* its retries on a transient error, the error leaves the wrapper after
\* MbRetries + 1 invocations but is caught inside get_metadata_from_sources:
\* the try block is left, the function is not, and it goes on to the
\* scraping fallback; it is never left by an exception.
C11_ExhaustedAbsorbed ==
  /\ gm_exit # "raised"
  /\ ExhaustedMb =>
       /\ w.attempts = MbRetries + 1
       /\ mb_end = "raised"
       /\ gm_pc = "scraper"
       /\ gm_exit = "none"

C11_Witness ==
  /\ ExhaustedMb
  /\ w.op = "get_artist_tags"
  /\ w.error = "ConnectionError"
  /\ gm_pc = "scraper"

(***************************************************************************)
(* Properties of retry_with_backoff (SpecRetry)                            *)
(***************************************************************************)
\* the kind of e is in the configured retryable set
Retryable(e) == e \in FuncErrors /\ \E c \in ClassesOf(e) : c \in deco.exceptions

\* the first k invocations of func raised a retryable error
FailedFirst(k) == Len(func_log) >= k /\ \A i \in 1..k : Retryable(func_log[i])

Invocations == Len(func_log)

Sleeps == Len(w.sleeps)

\* C12: with retries = N >= 0, a func that raises a retryable error on every
\* call is invoked at most N + 1 times; while fewer than N + 1 invocations
\* have failed the wrapper is still running and has slept once per failure;
\* at the N + 1st failure it raises the error of that attempt, having slept
\* exactly N times (not after the final failure); it never returns.
C12_ExhaustionCounts ==
  (w.status # "idle" /\ FailedFirst(Invocations)) =>
    /\ Invocations <= deco.retries + 1
    /\ w.attempts = Invocations
    /\ w.status = (IF Invocations = deco.retries + 1 THEN "raised" ELSE "running")
    /\ Sleeps = (IF Invocations = deco.retries + 1 THEN deco.retries ELSE Invocations)
    /\ w.status = "raised" => w.error = Last(func_log)

C12_Witness ==
  /\ deco.retries = MaxRetries
  /\ w.status = "raised"
  /\ FailedFirst(Invocations)
  /\ func_log[1] # Last(func_log)

\* C13: for every k <= retries, a func that raises a retryable error on its
\* first k calls is called a k + 1st time, and when that call succeeds the
\* wrapper returns its result after exactly k + 1 invocations and k sleeps.
C13_SuccessAfterFailures ==
  \A k \in 0..deco.retries :
    /\ (w.status # "idle" /\ Invocations = k /\ FailedFirst(k)) => w.status = "running"
    /\ (Invocations = k + 1 /\ FailedFirst(k) /\ func_log[k + 1] \in FuncValues) =>
         /\ w.status = "returned"
         /\ wrapper_value = func_log[k + 1]
         /\ w.attempts = k + 1
         /\ Sleeps = k

C13_Witness ==
  /\ deco.retries = MaxRetries
  /\ Invocations = MaxRetries + 1
  /\ FailedFirst(MaxRetries)
  /\ w.status = "returned"
  /\ wrapper_value = "v2"

\* C14: an error whose kind is not in the configured retryable set leaves
\* the wrapper on the invocation that raised it: that invocation is the last
\* one and no sleep follows it, however many retries remain.
C14_NonRetryablePropagates ==
  \A i \in DOMAIN func_log :
    (func_log[i] \in FuncErrors /\ ~Retryable(func_log[i])) =>
      /\ i = Invocations
      /\ w.status = "raised"
      /\ w.error = func_log[i]
      /\ w.attempts = i
      /\ Sleeps = i - 1

C14_Witness ==
  /\ deco.retries = MaxRetries
  /\ func_log = <<"KeyError">>
  /\ w.status = "raised"
  /\ w.retry_count = 0

\* C15: the sleep before retry number k lasts between 0.8 and 1.2 times
\* backoff_in_seconds * 2^(k-1).
C15_SleepWindow ==
  \A k \in DOMAIN w.sleeps :
    LET nominal == deco.backoff_in_seconds * 2^(k - 1)
    IN  /\ 10 * w.sleeps[k] >= 8 * nominal
        /\ 10 * w.sleeps[k] <= 12 * nominal

C15_Witness ==
  /\ Sleeps = MaxRetries
  /\ w.op = "func"
  /\ 10 * w.sleeps[1] = 8 * deco.backoff_in_seconds
  /\ 10 * w.sleeps[MaxRetries] = 12 * deco.backoff_in_seconds * 2^(MaxRetries - 1)

(***************************************************************************)
(* Properties of the batch drivers (SpecBatch)                             *)
(***************************************************************************)
\* C16: in enrich_with_discogs, analyze_playlist and
\* MusicAnalyzer.analyze_playlist a catalog lookup that raises never ends
\* the batch: every track the loop has taken has its record, and the record
\* of a track whose lookup failed has empty genre and style lists.
C16_CatalogErrorNeverEndsBatch ==
  driver \in {"enrich_with_discogs", "analyze_playlist", "MusicAnalyzer.analyze_playlist"} =>
    /\ batch_exit # "raised"
    /\ Len(tracks_data) = track_no
    /\ \A i \in DOMAIN tracks_data :
         tracks_data[i].failed =>
           tracks_data[i].discogs_genres = <<>> /\ tracks_data[i].discogs_styles = <<>>

\* the release passed a similarity check against the queried album or
\* track title or against the queried artist, at the lowest threshold tried
PassedSimilarity(rec) ==
  \/ is_similar(rec.rel.title, rec.query, 60)
  \/ AnyArtistSimilar(rec.rel, rec.artist, 60)

\* C17: in analyze_playlist and process_playlist a record holds genres or
\* styles of a catalog release only if that release passed the similarity
\* check against the queried album, track or artist.
C17_OnlyVerifiedAccepted ==
  driver \in {"analyze_playlist", "process_playlist"} =>
    \A i \in DOMAIN tracks_data :
      tracks_data[i].rel.kind = "release" => PassedSimilarity(tracks_data[i])

(***************************************************************************)
(* Properties of split_artists (SpecSplit)                                 *)
(***************************************************************************)
\* opening minus closing parentheses among the first n characters of s
Balance(s, n) ==
  Cardinality({i \in 1..n : s[i] = "("}) - Cardinality({i \in 1..n : s[i] = ")"})

Balanced(s) ==
  /\ Balance(s, Len(s)) = 0
  /\ \A n \in 0..Len(s) : Balance(s, n) >= 0

\* the commas of a balanced s outside of and inside parentheses
TopCommas(s) == {i \in DOMAIN s : s[i] = "," /\ Balance(s, i - 1) = 0}

NestedCommas(s) == {i \in DOMAIN s : s[i] = "," /\ Balance(s, i - 1) > 0}

\* the kth position of the set S of positions, S with 0 and Len(s) + 1 added
Cut(S, k) == CHOOSE i \in S : Cardinality({j \in S : j < i}) = k

\* s cut at every comma outside parentheses, the pieces stripped, the last
\* one left out when nothing remains of it
PiecesAtTopCommas(s) ==
  LET S == TopCommas(s) \cup {0, Len(s) + 1}
      m == Cardinality(S) - 1
      piece(k) == Strip(SubSeq(s, Cut(S, k - 1) + 1, Cut(S, k) - 1))
      all == [k \in 1..m |-> piece(k)]
  IN  IF all[m] = <<>> THEN SubSeq(all, 1, m - 1) ELSE all

CommasOf(seg) == Cardinality({i \in DOMAIN seg : seg[i] = ","})

RECURSIVE CommasIn(_)
CommasIn(segs) ==
  IF segs = <<>> THEN 0 ELSE CommasOf(Head(segs)) + CommasIn(Tail(segs))

DocSegments ==
  << <<"Y","a","s","u","n","o","r","i"," ","M","i","t","s","u","d","a">>,
     <<"A","C","E"," ","(","T","O","M","O","r","i"," ","K","u","d","o",",",
     " ","C","H","i","C","O",")">>,
     <<"K","e","n","j","i"," ","H","i","r","a","m","a","t","s","u">> >>

\* C18: for input with balanced parentheses, split_artists cuts at a comma
\* exactly when the nesting depth at that comma is zero: the pieces the scan
\* leaves are the input cut at its depth-zero commas, the commas that remain
\* in the returned segments are exactly those inside parentheses, and the
\* docstring example yields its three segments.
C18_CutsAtDepthZeroCommas ==
  (Truthy(raw_name) /\ Balanced(raw_name)) =>
    /\ sp_pc \in {"resplit", "done"} => scan.parts = PiecesAtTopCommas(raw_name)
    /\ sp_pc = "done" => CommasIn(final) = Cardinality(NestedCommas(raw_name))
    /\ (sp_pc = "done" /\ raw_name = DocExample) => final = DocSegments

C18_Witness ==
  /\ sp_pc = "done"
  /\ raw_name = DocExample
  /\ Balanced(raw_name)
  /\ TopCommas(raw_name) # {}
  /\ NestedCommas(raw_name) # {}
  /\ Len(final) = Len(DocSegments)

\* the depth the scan has after the first n characters of s when a ")"
\* without its "(" is not counted
ClampedDepth(s, n) ==
  LET low == CHOOSE b \in {Balance(s, j) : j \in 0..n} :
               \A j \in 0..n : b <= Balance(s, j)
  IN  Balance(s, n) - low

\* position j of s holds a ")" that has no "(" to close
Unmatched(s, j) == s[j] = ")" /\ ClampedDepth(s, j - 1) = 0

\* C19: during the character scan the nesting depth is never negative: an
\* unmatched ")" leaves it at zero, so the depth counts only the "(" still
\* open, and every comma met at that depth has cut a piece, also one that
\* follows an unmatched ")".
C19_DepthNeverNegative ==
  sp_pc = "scan" =>
    /\ scan.depth >= 0
    /\ scan.depth = ClampedDepth(raw_name, scan_i)
    /\ (scan_i > 0 /\ Unmatched(raw_name, scan_i)) => scan.depth = 0
    /\ Len(scan.parts) =
         Cardinality({j \in 1..scan_i :
                        raw_name[j] = "," /\ ClampedDepth(raw_name, j - 1) = 0})

C19_Witness ==
  /\ sp_pc = "scan"
  /\ scan_i = Len(raw_name)
  /\ \E j \in 1..scan_i : \E k \in (j + 1)..scan_i :
       /\ Unmatched(raw_name, j)
       /\ raw_name[k] = ","
       /\ \A x \in j..k : raw_name[x] # "("
  /\ Len(scan.parts) = 1

WhitespaceOnly(seg) == \A i \in DOMAIN seg : IsSpace(seg[i])

\* C20: split_artists returns no empty and no whitespace-only segment, and
\* returns the empty list for empty or missing input.
C20_NoEmptySegment ==
  sp_pc = "done" =>
    /\ \A i \in DOMAIN final : ~WhitespaceOnly(final[i])
    /\ (raw_name = None \/ raw_name = <<>>) => final = <<>>

C20_Witness ==
  /\ sp_pc = "done"
  /\ raw_name = <<",", ",", "a", ",">>
  /\ final = << <<"a">> >>

\* is_similar called on two strings and a threshold
InitSimilar ==
  /\ InitIdle
  /\ InitSafe
  /\ text_in = None
  /\ text_out = <<>>
  /\ sim_in \in SimInputs
  /\ sim_out = <<>>
  /\ art_in = None
  /\ art_out = <<>>
  /\ merge_in = NoMerge
  /\ all_genres = <<>>

NextSimilar == IsSimilar

SpecSimilar == InitSimilar /\ [][NextSimilar]_vars

\* extract_artist_parts called on an artist name
InitArtists ==
  /\ InitIdle
  /\ InitSafe
  /\ text_in = None
  /\ text_out = <<>>
  /\ sim_in = NoSimilar
  /\ sim_out = <<>>
  /\ art_in \in NameInputs
  /\ art_out = <<>>
  /\ merge_in = NoMerge
  /\ all_genres = <<>>

NextArtists == ExtractArtistParts

SpecArtists == InitArtists /\ [][NextArtists]_vars

\* the record of a track built from the genres the two sources gave
InitMerge ==
  /\ InitIdle
  /\ InitSafe
  /\ text_in = None
  /\ text_out = <<>>
  /\ sim_in = NoSimilar
  /\ sim_out = <<>>
  /\ art_in = None
  /\ art_out = <<>>
  /\ merge_in \in MergeInputs
  /\ all_genres = <<>>

NextMerge == BuildRecord

SpecMerge == InitMerge /\ [][NextMerge]_vars

\* one call of a func wrapped by safe_api_call
InitSafeCall ==
  /\ InitIdle
  /\ InitFunctions
  /\ InitSafe

NextSafe ==
  \/ SafeEnter
  \/ SafeAttempt

SpecSafe == InitSafeCall /\ [][NextSafe]_vars

(***************************************************************************)
(* Properties of clean_text (SpecText)                                     *)
(***************************************************************************)
\* C25: clean_text is idempotent: applied to its own result it gives that
\* result again.
C25_CleanTextIdempotent == Len(text_out) = 2 => text_out[2] = text_out[1]

IsLowerAlnum(c) == IsLowerCh(c) \/ c \in DigitChars

\* C26: the result of clean_text holds only lower-case letters, digits and
\* single spaces, and no space at either end.
C26_OnlyLowerAlnumAndSpace ==
  Len(text_out) >= 1 =>
    LET out == text_out[1]
    IN  /\ \A i \in DOMAIN out : IsLowerAlnum(out[i]) \/ out[i] = " "
        /\ \A i \in 1..(Len(out) - 1) : ~(out[i] = " " /\ out[i + 1] = " ")
        /\ out # <<>> => (out[1] # " " /\ out[Len(out)] # " ")

(***************************************************************************)
(* Properties of is_similar (SpecSimilar)                                  *)
(***************************************************************************)
EmptyOrMissing(s) == s = None \/ s = <<>>

\* C24: is_similar returns false when either input is the empty string or
\* missing, whatever the other input and the threshold, thresholds of 0 and
\* below included.
C24_EmptyInputNeverSimilar ==
  (sim_out # <<>> /\ (EmptyOrMissing(sim_in.str1) \/ EmptyOrMissing(sim_in.str2)))
    => sim_out = <<FALSE>>

\* an empty input met a threshold that the ratio of two empty strings passes
C24_Witness ==
  /\ sim_out = <<FALSE>>
  /\ sim_in.str1 = <<>>
  /\ sim_in.str2 = None
  /\ sim_in.threshold <= 0

\* what the text normalizer leaves of an input, computed apart from clean_text
NormalizesToEmpty(s) ==
  EmptyOrMissing(s) \/ \A i \in DOMAIN s : ~IsWord(s[i])

\* C30: is_similar returns false when at least one input normalizes to the
\* empty string, for every threshold in (0, 1].
C30_NormalizedEmptyNeverSimilar ==
  (/\ sim_out # <<>>
   /\ NormalizesToEmpty(sim_in.str1) \/ NormalizesToEmpty(sim_in.str2)
   /\ sim_in.threshold \in 1..100)
    => sim_out = <<FALSE>>

(***************************************************************************)
(* Properties of extract_artist_parts (SpecArtists)                        *)
(***************************************************************************)
\* where x stands first in the list l
FirstPos(l, x) == CHOOSE i \in DOMAIN l : l[i] = x /\ \A k \in 1..(i - 1) : l[k] # x

C22_DocstringExample ==
  (art_out # <<>> /\ art_in = DocArtist) =>
    art_out[1] = << <<"Y","a","s","u","n","o","r","i"," ","M","i","t","s","u","d","a">>,
                    <<"A","C","E">>,
                    <<"T","O","M","O","r","i"," ","K","u","d","o">>,
                    <<"C","H","i","C","O">> >>

(***************************************************************************)
(* Properties of the merged genre list (SpecMerge)                         *)
(***************************************************************************)
RECURSIVE FirstSeen(_)
\* the entries of l, each kept where it first stands
FirstSeen(l) ==
  IF l = <<>> THEN <<>>
  ELSE LET init == FirstSeen(SubSeq(l, 1, Len(l) - 1))
           last == l[Len(l)]
       IN  IF \E i \in DOMAIN init : init[i] = last THEN init
           ELSE Append(init, last)

\* C23: all_genres holds no duplicate and lists the streaming-catalog genres
\* followed by the marketplace genres in first-seen order.
C23_MergedInFirstSeenOrder ==
  all_genres # <<>> =>
    all_genres[1].all_genres =
      FirstSeen(merge_in.spotify_genres \o merge_in.discogs_genres)

(***************************************************************************)
(* The track query of get_metadata_from_sources (SpecSources)              *)
(***************************************************************************)
RecordingTried == \E k \in DOMAIN mb_log : mb_log[k].op = "search_recording"

\* the album step (lines 173-180) assigned a non-empty tag list to genres
AlbumGaveGenres ==
  \E k \in DOMAIN mb_log :
    /\ mb_log[k].op = "get_artist_tags"
    /\ mb_log[k].status = "returned"
    /\ mb_log[k].value.tags # <<>>
    /\ \A j \in 1..(k - 1) : mb_log[j].op # "search_recording"

\* C27: once the MusicBrainz block is over, search_recording was attempted
\* whenever the album step left genres empty, whatever the cause, an error
\* raised by an album call included.
C27_TrackQueryForEveryCause ==
  (mb_end # "none" /\ ~AlbumGaveGenres) => RecordingTried

\* the album step ended without an exception and without genres: no album
\* name, no release, a release without artist credit, or an artist without tags
AlbumEndedQuietlyEmpty ==
  \/ ~Truthy(album_name)
  \/ /\ mb_log # <<>>
     /\ mb_log[1].op = "search_release"
     /\ mb_log[1].status = "returned"
     /\ \/ mb_log[1].value.kind \in {"empty", "no_credit"}
        \/ /\ mb_log[1].value.kind = "credit"
           /\ Len(mb_log) >= 2
           /\ mb_log[2].op = "get_artist_tags"
           /\ mb_log[2].status = "returned"
           /\ mb_log[2].value.tags = <<>>

\* C27 amended: once the MusicBrainz block is over, search_recording was
\* attempted exactly when the album step ended without genres and without an
\* exception; an exception of the album step skips the track query.
C27_TrackQueryUnlessRaised ==
  /\ mb_end # "none" => (RecordingTried <=> AlbumEndedQuietlyEmpty)
  /\ gm_pc \in {"search_recording", "recording_tags"} => AlbumEndedQuietlyEmpty

\* the artist of the release had no tags and the track query followed
C27_Witness ==
  /\ mb_end # "none"
  /\ Len(mb_log) >= 3
  /\ mb_log[2].op = "get_artist_tags"
  /\ mb_log[2].value.tags = <<>>
  /\ mb_log[3].op = "search_recording"

(***************************************************************************)
(* An accepted release without genre data (Spec)                           *)
(***************************************************************************)
NoGenreData(rel) ==
  /\ ~rel.has_genres \/ rel.genres = <<>>
  /\ ~rel.has_styles \/ rel.styles = <<>>

\* C28: when the release that a strategy accepts has missing or empty genres
\* and styles, search_discogs_release returns ([], []) at once: the call that
\* gave the release is the last one, and the value returned is the one
\* returned when every strategy is exhausted.
C28_EmptyVerifiedReleaseEndsCascade ==
  (LastAccepted /\ NoGenreData(resp)) =>
    /\ pc = "done"
    /\ exit = "release"
    /\ result = [genres |-> <<>>, styles |-> <<>>]
    /\ result = ExhaustedReturn

\* the first album candidate gave an accepted release with an empty genres
\* list and no styles, and candidates and strategies remained
C28_Witness ==
  /\ LastAccepted
  /\ resp.has_genres
  /\ NoGenreData(resp)
  /\ Len(calls) = 1
  /\ Len(ExpectedPlan) > 1
  /\ pc = "done"

(***************************************************************************)
(* Properties of safe_api_call (SpecSafe)                                  *)
(***************************************************************************)
RECURSIVE SleepsAfter(_, _)
\* k seconds after invocation k when it raised and is not the third
SleepsAfter(log, k) ==
  IF k > Len(log) THEN <<>>
  ELSE (IF log[k] \in SafeErrors /\ k < 3 THEN <<1000 * k>> ELSE <<>>)
       \o SleepsAfter(log, k + 1)

GaveResult(o) == o \notin SafeErrors /\ o # "None"

\* C29: func is invoked at most 3 times per call; the wrapper is never left
\* by an exception; it returns the first result of func that is not None,
\* and None after a third attempt without one; it sleeps 1 s after a first
\* and 2 s after a second attempt that raised, and at no other time.
C29_SafeCallBounded ==
  /\ Len(sa_log) <= 3
  /\ sa.status \in {"idle", "running", "returned"}
  /\ \A k \in 1..(Len(sa_log) - 1) : ~GaveResult(sa_log[k])
  /\ sa.status = "running" => (Len(sa_log) < 3 /\ \A k \in DOMAIN sa_log : ~GaveResult(sa_log[k]))
  /\ sa.status = "returned" =>
       /\ sa_log # <<>>
       /\ IF GaveResult(sa_log[Len(sa_log)])
          THEN sa.value = sa_log[Len(sa_log)]
          ELSE sa.value = "None" /\ Len(sa_log) = 3
  /\ sa.sleeps = SleepsAfter(sa_log, 1)

\* func returned None, raised, raised again: None is returned after one
\* sleep of 2 s
C29_Witness ==
  /\ sa.status = "returned"
  /\ sa.value = "None"
  /\ sa_log = <<"None", "ConnectionError", "KeyError">>
  /\ sa.sleeps = <<2000>>
====
